---- MODULE Spec2Model ----
(***************************************************************************)
(* Model of zk2: the hash_preimage circuit (HashListCheckInternal / Main), *)
(* the input builders get_input.js and get_input_with_others.js, and the   *)
(* driver scripts prove.sh and prove_with_list.sh.                         *)
(*                                                                         *)
(* The scalar field of the curve is replaced by a small prime field GF(P), *)
(* and the list size n of Main(n) by N, so that every list, secret, index  *)
(* and inverse hint can be enumerated.  N < P is kept, as 10 < p is in the *)
(* program, so the positions 0..n-1 are distinct field elements.           *)
(***************************************************************************)
EXTENDS Integers, Sequences, FiniteSets, TLC

\* ---------------------------------------------------------------- bounds
\* Index into Primes of the field modulus (raising it keeps the modulus prime).
PrimeIdx == 3

\* The list size n of the templates; the program instantiates Main(10).
N == 3

\* List entries, as integers, are drawn from 0..MaxEntry.
MaxEntry == 2

Primes == <<2, 3, 5, 7, 11, 13, 17, 19>>

\* The field modulus p.
P == Primes[PrimeIdx]

F == 0 .. (P - 1)

\* ------------------------------------------------------- field arithmetic
FAdd(a, b) == (a + b) % P

FSub(a, b) == ((a - b) + P) % P

FMul(a, b) == (a * b) % P

\* 1/a in the field, for a # 0.
FInv(a) == CHOOSE b \in F : FMul(a, b) = 1

\* Normalisation of an integer read from input.json into the field.
Normalize(k) == k % P

\* ------------------------------------------------ strings of decimal digits
\* A string is a sequence of characters; only digit characters 0..9 occur.
RECURSIVE DecString(_)
\* String(k), BigInt.toString(), F.toString(): the decimal digits of k >= 0.
DecString(k) == IF k < 10 THEN <<k>> ELSE Append(DecString(k \div 10), k % 10)

RECURSIVE BigIntOf(_)
\* BigInt(s), parseInt(s, 10) for a string of decimal digits.
BigIntOf(s) ==
  IF Len(s) = 0 THEN 0
  ELSE 10 * BigIntOf(SubSeq(s, 1, Len(s) - 1)) + s[Len(s)]

\* The empty string: an argument that was not given ($1 unset, argv[k] undefined).
NoArg == <<>>

\* ------------------------------------------------------------ JSON values
\* An entry of the others file: a JSON string of digits or a JSON number.
JStr(k) == [t |-> "str", v |-> DecString(k)]

JNum(k) == [t |-> "num", v |-> <<k>>]

\* String(h) of a JSON entry.
StringOf(h) == IF h.t = "str" THEN h.v ELSE DecString(h.v[1])

\* Contents of input.json: empty (nothing was printed) or an input object.
EmptyJson == [kind |-> "empty", r |-> <<>>, j |-> <<>>, hashes |-> <<>>]

InputObj(r0, j0, hs) == [kind |-> "obj", r |-> r0, j |-> j0, hashes |-> hs]

\* ------------------------------------------------------------------ state
VARIABLES
  hfun,          \* the hash primitive Poseidon(1), a function on the field
  mode,          \* "manual" (input.json written by hand), "prove", "prove_with_list"
  argv,          \* the arguments of the driver script
  othersFile,    \* contents of the others file (other_hashs.json)
  inputJson,     \* contents of hash_preimage_js/input.json
  genExit,       \* exit status of the input builder (-1: not run)
  pc,            \* the step the run is at
  r, j, hashes,  \* input signals of the circuit, as field elements
  hr,            \* signal hr
  inv,           \* eq[i].isz.inv, the inverse hints
  sel,           \* signal sel[n]
  sumSel,        \* signal sumSel[n+1]
  selectedHash,  \* signal selectedHash[n+1]
  ok,            \* output signal ok
  witStatus,     \* outcome of witness generation
  scriptExit,    \* exit status of the driver script (-1: still running)
  publicJson,    \* prover/public.json (<<>>: as it was before the run)
  proofJson,     \* prover/proof.json (<<>>: as it was before the run)
  ran            \* the steps of the driver script run so far, in order

vars == <<hfun, mode, argv, othersFile, inputJson, genExit, pc, r, j, hashes,
          hr, inv, sel, sumSel, selectedHash, ok, witStatus, scriptExit, publicJson,
          proofJson, ran>>

\* A scalar signal that has no value yet.
Unset == 0 - 1

\* An array signal that has no value yet.
NoArray == <<>>

\* ---------------------------------------------------------- hash primitive
\* Two stand-ins for Poseidon(1): an x^5 S-box permutation and a function
\* with collisions.
HashFamily ==
  { [x \in F |-> FAdd(FMul(FMul(FMul(x, x), FMul(x, x)), x), 1)],
    [x \in F |-> FAdd(FMul(x, x), 2)] }

\* h.out for h.inputs[0] = x; poseidon([x]) in circomlibjs.
Poseidon(x) == hfun[x]

\* --------------------------------------------- circomlib IsZero / IsEqual
\* inv <-- in != 0 ? 1/in : 0
IsZeroInv(in) == IF in # 0 THEN FInv(in) ELSE 0

\* out <== -in*inv + 1
IsZeroOut(in, hint) == FAdd(FMul(FSub(0, in), hint), 1)

\* IsZero with the constraint in*out === 0 left out.
IsZeroConstraintsNoProduct(in, hint, out) == out = IsZeroOut(in, hint)

\* The constraints of IsZero: out === -in*inv + 1 and in*out === 0.
IsZeroConstraints(in, hint, out) ==
  /\ out = IsZeroOut(in, hint)
  /\ FMul(in, out) = 0

\* The positions compared from 1 instead of 0.
IsEqualInOneBased(jv, i) == FSub(Normalize(i + 1), jv)

\* The index wrapped into the list before it is compared.
IsEqualInWrapped(jv, i) == FSub(Normalize(i), jv % N)

\* eq[i].in[0] <== j; eq[i].in[1] <== i; IsEqual feeds in[1] - in[0] to IsZero.
IsEqualIn(jv, i) == FSub(Normalize(i), jv)

\* ------------------------------------------------ HashListCheckInternal(n)
\* sel[i] <== eq[i].out, for i in 0..n-1, with the hints the witness
\* generator computes.
Selectors(jv) ==
  [i \in 0 .. (N - 1) |-> IsZeroOut(IsEqualIn(jv, i), IsZeroInv(IsEqualIn(jv, i)))]

Hints(jv) == [i \in 0 .. (N - 1) |-> IsZeroInv(IsEqualIn(jv, i))]

\* sumSel[i+1] <== sumSel[i] + sel[i]
SumStep(acc, s) == FAdd(acc, s)

RECURSIVE SumSelAt(_, _)
SumSelAt(s, i) == IF i = 0 THEN 0 ELSE SumStep(SumSelAt(s, i - 1), s[i - 1])

\* The partial sum overwritten instead of accumulated.
SelectStepOverwrite(acc, s, h) == FMul(s, h)

\* selectedHash[i+1] <== selectedHash[i] + sel[i] * hashes[i]
SelectStep(acc, s, h) == FAdd(acc, FMul(s, h))

RECURSIVE SelectedHashAt(_, _, _)
SelectedHashAt(s, hs, i) ==
  IF i = 0 THEN 0 ELSE SelectStep(SelectedHashAt(s, hs, i - 1), s[i - 1], hs[i - 1])

\* The constraint on the selector sum left out.
SumConstraintMissing(ss) == TRUE

\* sumSel[n] === 1
SumConstraint(ss) == ss[N] = 1

\* hr compared with the partial sum before the last position.
HashConstraintShort(h, sh) == h = sh[N - 1]

\* hr === selectedHash[n]
HashConstraint(h, sh) == h = sh[N]

\* ------------------------------------------------------------ get_input.js
\* The number of other hashes get_input_with_others.js requires (9 of 10).
OthersLen == N - 1

\* The position get_input_with_others.js gives the secret's hash (j = 9).
OwnIndex == N - 1

\* The default secret "12345" of get_input.js and prove.sh.
DefaultR == <<1, 2, 3, 4, 5>>

\* The default index "0" of get_input.js and prove.sh.
DefaultJ == <<0>>

\* poseidon.F.toString(poseidon([BigInt(secret)]))
HashStr(secret) == DecString(Poseidon(Normalize(BigIntOf(secret))))

\* main().catch(console.error): the rejection is printed, the exit status stays 0.
GetInputRejected == [exit |-> 0, out |-> EmptyJson]

\* hashes = Array(10).fill("0"); hashes[j] = hashStr
FilledHashes(jn, hashStr) == [i \in 1 .. N |-> IF i = jn + 1 THEN hashStr ELSE <<0>>]

\* get_input.js main(): [exit status, what it printed].
GetInput(rArg, jArg) ==
  LET r0 == IF rArg = NoArg THEN DefaultR ELSE rArg
      jn == BigIntOf(IF jArg = NoArg THEN DefaultJ ELSE jArg)
  IN  IF jn < 0 \/ jn > N - 1
        THEN GetInputRejected
        ELSE [exit |-> 0,
              out |-> InputObj(r0, DecString(jn), FilledHashes(jn, HashStr(r0)))]

\* ------------------------------------------------ get_input_with_others.js
\* process.exit(1), after the usage message and in main().catch.
WithOthersFailed == [exit |-> 1, out |-> EmptyJson]

\* A file of fewer hashes accepted.
OthersShapeAtMost(file) == file.kind = "array" /\ Len(file.items) <= OthersLen

\* Array.isArray(others) && others.length === 9
OthersShapeOk(file) == file.kind = "array" /\ Len(file.items) = OthersLen

\* The secret's hash put first instead of last.
WithOwnHashFirst(items, hashStr) ==
  <<hashStr>> \o [i \in 1 .. Len(items) |-> StringOf(items[i])]

\* hashes = [...others.map((h) => String(h)), hashStr]
WithOwnHash(items, hashStr) ==
  [i \in 1 .. Len(items) |-> StringOf(items[i])] \o <<hashStr>>

\* get_input_with_others.js main(): [exit status, what it printed].
GetInputWithOthers(secret, file) ==
  IF secret = NoArg THEN WithOthersFailed
  ELSE IF file.kind = "empty" THEN WithOthersFailed
  ELSE IF ~OthersShapeOk(file) THEN WithOthersFailed
  ELSE [exit |-> 0,
        out |-> InputObj(secret, DecString(OwnIndex),
                         WithOwnHash(file.items, HashStr(secret)))]

\* ------------------------------------------------------ witness generation
\* The witness calculator accepts an array input only with exactly as many
\* values as the signal declares: signal input hashes[n].
ShapeOk(json) == Len(json.hashes) = N

\* The field element an input string denotes.
FieldOf(str) == Normalize(BigIntOf(str))

\* The array signal hashes[0..n-1] read from input.json.
HashesOf(json) == [i \in 0 .. (N - 1) |-> FieldOf(json.hashes[i + 1])]

\* ------------------------------------------------------------------- Init
\* Secrets and indices given as decimal strings; some exceed the modulus.
SecretStrings == {DecString(k) : k \in (0 .. P) \cup {2 * P + 1}}

IndexStrings == {DecString(k) : k \in 0 .. P}

EntryStrings == {DecString(k) : k \in 0 .. MaxEntry}

\* Lists of N-1, N and N+1 entries.
ListsOf(S, lo, hi) == UNION {[1 .. len -> S] : len \in lo .. hi}

OthersEntries == {JStr(k) : k \in 0 .. MaxEntry} \cup {JNum(k) : k \in 0 .. MaxEntry}

OthersFiles ==
  {[kind |-> "empty", items |-> <<>>], [kind |-> "object", items |-> <<>>]}
  \cup {[kind |-> "array", items |-> it] : it \in ListsOf(OthersEntries, N - 2, N)}

NoFile == [kind |-> "empty", items |-> <<>>]

NoArgs == [a1 |-> NoArg, a2 |-> NoArg]

SignalsUnset ==
  /\ r = Unset /\ j = Unset /\ hashes = NoArray
  /\ hr = Unset /\ inv = NoArray /\ sel = NoArray
  /\ sumSel = NoArray /\ selectedHash = NoArray /\ ok = Unset
  /\ witStatus = "none" /\ scriptExit = Unset /\ publicJson = <<>>
  /\ proofJson = <<>> /\ ran = <<>>

\* input.json written by hand, then generate_witness.js run on it.
InitManual ==
  /\ mode = "manual"
  /\ argv = NoArgs
  /\ othersFile = NoFile
  /\ inputJson \in {InputObj(r0, j0, hs) : r0 \in SecretStrings, j0 \in IndexStrings,
                                           hs \in ListsOf(EntryStrings, N - 1, N + 1)}
  /\ genExit = Unset
  /\ pc = "w_load"

\* ./prove.sh [r] [j]
InitProve ==
  /\ mode = "prove"
  /\ argv \in [a1 : SecretStrings \cup {NoArg},
               a2 : {DecString(k) : k \in 0 .. (N + 1)} \cup {NoArg}]
  /\ othersFile = NoFile
  /\ inputJson = EmptyJson
  /\ genExit = Unset
  /\ pc = "gen"

\* ./prove_with_list.sh <secret> [others.json]
InitProveWithList ==
  /\ mode = "prove_with_list"
  /\ argv \in [a1 : SecretStrings \cup {NoArg}, a2 : {NoArg}]
  /\ othersFile \in OthersFiles
  /\ inputJson = EmptyJson
  /\ genExit = Unset
  /\ pc = "args"

Init ==
  /\ hfun \in HashFamily
  /\ SignalsUnset
  /\ (InitManual \/ InitProve \/ InitProveWithList)

\* ---------------------------------------------------------------- actions
Abort(status) ==
  /\ pc' = "aborted"
  /\ scriptExit' = status

\* prove_with_list.sh: if [ -z "$SECRET" ]; then ...; exit 1
CheckSecretArg ==
  /\ pc = "args"
  /\ IF argv.a1 = NoArg
       THEN Abort(1)
       ELSE pc' = "gen" /\ UNCHANGED scriptExit
  /\ UNCHANGED <<hfun, mode, argv, othersFile, inputJson, genExit, r, j, hashes,
                 hr, inv, sel, sumSel, selectedHash, ok, witStatus, publicJson,
                 proofJson, ran>>

\* node <builder> ... > hash_preimage_js/input.json, under set -e.
RunBuilder(res) ==
  /\ ran' = Append(ran, "input")
  /\ genExit' = res.exit
  /\ inputJson' = res.out
  /\ IF res.exit # 0
       THEN Abort(res.exit)
       ELSE pc' = "w_load" /\ UNCHANGED scriptExit
  /\ UNCHANGED <<hfun, mode, argv, othersFile, r, j, hashes,
                 hr, inv, sel, sumSel, selectedHash, ok, witStatus, publicJson,
                 proofJson>>

\* prove.sh: R=${1:-12345}; J=${2:-0}; node get_input.js "$R" "$J" > input.json
GenerateInput ==
  /\ pc = "gen" /\ mode = "prove"
  /\ RunBuilder(GetInput(IF argv.a1 = NoArg THEN DefaultR ELSE argv.a1,
                         IF argv.a2 = NoArg THEN DefaultJ ELSE argv.a2))

\* prove_with_list.sh: node get_input_with_others.js "$SECRET" "$OTHERS" > input.json
BuildInputWithOthers ==
  /\ pc = "gen" /\ mode = "prove_with_list"
  /\ RunBuilder(GetInputWithOthers(argv.a1, othersFile))

\* Witness generation fails: generate_witness.js exits non-zero, no witness
\* is written, and a driver script stops there (set -e).
WitnessFails(why) ==
  /\ witStatus' = why
  /\ Abort(1)

\* generate_witness.js reads input.json and sets the input signals.
LoadInputs ==
  /\ pc = "w_load"
  /\ ran' = Append(ran, "witness")
  /\ IF inputJson.kind = "empty"
       THEN WitnessFails("InputError") /\ UNCHANGED <<r, j, hashes>>
       ELSE IF ~ShapeOk(inputJson)
       THEN WitnessFails("ShapeMismatch") /\ UNCHANGED <<r, j, hashes>>
       ELSE /\ r' = FieldOf(inputJson.r)
            /\ j' = FieldOf(inputJson.j)
            /\ hashes' = HashesOf(inputJson)
            /\ pc' = "w_hash"
            /\ UNCHANGED <<witStatus, scriptExit>>
  /\ UNCHANGED <<hfun, mode, argv, othersFile, inputJson, genExit,
                 hr, inv, sel, sumSel, selectedHash, ok, publicJson,
                 proofJson>>

\* h.inputs[0] <== r; hr <== h.out
ComputeHash ==
  /\ pc = "w_hash"
  /\ hr' = Poseidon(r)
  /\ pc' = "w_sel"
  /\ UNCHANGED <<hfun, mode, argv, othersFile, inputJson, genExit, r, j, hashes,
                 inv, sel, sumSel, selectedHash, ok, witStatus, scriptExit, publicJson,
                 proofJson, ran>>

\* for i in 0..n-1: eq[i] = IsEqual(); sel[i] <== eq[i].out
ComputeSelectors ==
  /\ pc = "w_sel"
  /\ inv' = Hints(j)
  /\ sel' = Selectors(j)
  /\ IF \A i \in 0 .. (N - 1) : IsZeroConstraints(IsEqualIn(j, i), Hints(j)[i], Selectors(j)[i])
       THEN pc' = "w_sum" /\ UNCHANGED <<witStatus, scriptExit>>
       ELSE WitnessFails("UnsatisfiableWitness")
  /\ UNCHANGED <<hfun, mode, argv, othersFile, inputJson, genExit, r, j, hashes,
                 hr, sumSel, selectedHash, ok, publicJson,
                 proofJson, ran>>

\* sumSel[0] <== 0; sumSel[i+1] <== sumSel[i] + sel[i]; sumSel[n] === 1
SumSelectors ==
  /\ pc = "w_sum"
  /\ sumSel' = [i \in 0 .. N |-> SumSelAt(sel, i)]
  /\ IF SumConstraint(sumSel')
       THEN pc' = "w_select" /\ UNCHANGED <<witStatus, scriptExit>>
       ELSE WitnessFails("UnsatisfiableWitness")
  /\ UNCHANGED <<hfun, mode, argv, othersFile, inputJson, genExit, r, j, hashes,
                 hr, inv, sel, selectedHash, ok, publicJson,
                 proofJson, ran>>

\* selectedHash[0] <== 0; selectedHash[i+1] <== ...; hr === selectedHash[n]
SelectHash ==
  /\ pc = "w_select"
  /\ selectedHash' = [i \in 0 .. N |-> SelectedHashAt(sel, hashes, i)]
  /\ IF HashConstraint(hr, selectedHash')
       THEN pc' = "w_ok" /\ UNCHANGED <<witStatus, scriptExit>>
       ELSE WitnessFails("UnsatisfiableWitness")
  /\ UNCHANGED <<hfun, mode, argv, othersFile, inputJson, genExit, r, j, hashes,
                 hr, inv, sel, sumSel, ok, publicJson,
                 proofJson, ran>>

\* The value the template assigns its output: ok <== 1.
OkValue == 1

\* ok <== 1; Main: ok <== c.ok; the witness is complete and written.
SetOk ==
  /\ pc = "w_ok"
  /\ ok' = OkValue
  /\ witStatus' = "ok"
  /\ IF mode = "manual"
       THEN pc' = "done" /\ scriptExit' = 0
       ELSE pc' = "prove" /\ UNCHANGED scriptExit
  /\ UNCHANGED <<hfun, mode, argv, othersFile, inputJson, genExit, r, j, hashes,
                 hr, inv, sel, sumSel, selectedHash, publicJson,
                 proofJson, ran>>

\* snarkjs groth16 prove ... prover/proof.json prover/public.json
CreateProof ==
  /\ pc = "prove"
  /\ ran' = Append(ran, "proof")
  /\ publicJson' = <<ok>>
  /\ proofJson' = <<"proof">>
  /\ pc' = "done"
  /\ scriptExit' = 0
  /\ UNCHANGED <<hfun, mode, argv, othersFile, inputJson, genExit, r, j, hashes,
                 hr, inv, sel, sumSel, selectedHash, ok, witStatus>>

Next ==
  \/ CheckSecretArg
  \/ GenerateInput
  \/ BuildInputWithOthers
  \/ LoadInputs
  \/ ComputeHash
  \/ ComputeSelectors
  \/ SumSelectors
  \/ SelectHash
  \/ SetOk
  \/ CreateProof

Spec == Init /\ [][Next]_vars

\* ------------------------------------------------- a prover's own witness
\* A prover need not run the witness generator: it may assign any field
\* values to the private signals j, r, eq[i].isz.inv and sel[i].  The
\* constraint system accepts an assignment that satisfies every constraint.
\* sumSel, selectedHash and hr are determined by the values they are
\* constrained to equal.

\* The array a extended by value v at position k.
Extend(a, k, v) == [i \in 0 .. k |-> IF i < k THEN a[i] ELSE v]

\* The number of positions assigned so far.
Assigned(a) == Cardinality(DOMAIN a)

InitProver ==
  /\ hfun \in HashFamily
  /\ mode = "prover"
  /\ argv = NoArgs
  /\ othersFile = NoFile
  /\ inputJson = EmptyJson
  /\ genExit = Unset
  /\ pc = "p_eq"
  /\ j \in F
  /\ r = Unset /\ hashes = NoArray
  /\ hr = Unset /\ inv = NoArray /\ sel = NoArray
  /\ sumSel = NoArray /\ selectedHash = NoArray /\ ok = Unset
  /\ witStatus = "none" /\ scriptExit = Unset /\ publicJson = <<>>
  /\ proofJson = <<>> /\ ran = <<>>

Rejected(at) ==
  /\ pc' = at
  /\ witStatus' = "UnsatisfiableWitness"

\* The prover assigns eq[k].isz.inv and sel[k]; the constraints of IsEqual
\* at position k are evaluated on the assignment.
ProverAssignEq ==
  /\ pc = "p_eq"
  /\ \E hint \in F, out \in F :
       LET k == Assigned(sel) IN
         /\ inv' = Extend(inv, k, hint)
         /\ sel' = Extend(sel, k, out)
         /\ IF IsZeroConstraints(IsEqualIn(j, k), hint, out)
              THEN pc' = (IF k = N - 1 THEN "p_sum" ELSE "p_eq") /\ UNCHANGED witStatus
              ELSE Rejected("rejected_eq")
  /\ UNCHANGED <<hfun, mode, argv, othersFile, inputJson, genExit, r, j, hashes,
                 hr, sumSel, selectedHash, ok, scriptExit, publicJson,
                 proofJson, ran>>

\* sumSel[i+1] === sumSel[i] + sel[i]; sumSel[n] === 1
ProverSum ==
  /\ pc = "p_sum"
  /\ sumSel' = [i \in 0 .. N |-> SumSelAt(sel, i)]
  /\ IF SumConstraint(sumSel')
       THEN pc' = "p_inputs" /\ UNCHANGED witStatus
       ELSE Rejected("rejected_sum")
  /\ UNCHANGED <<hfun, mode, argv, othersFile, inputJson, genExit, r, j, hashes,
                 hr, inv, sel, selectedHash, ok, scriptExit, publicJson,
                 proofJson, ran>>

\* The prover's secret and the list; hr === Poseidon(r).
ProverChooseInputs ==
  /\ pc = "p_inputs"
  /\ \E r0 \in F, hs \in [0 .. (N - 1) -> 0 .. MaxEntry] :
       /\ r' = r0
       /\ hashes' = hs
       /\ hr' = Poseidon(r0)
  /\ pc' = "p_select"
  /\ UNCHANGED <<hfun, mode, argv, othersFile, inputJson, genExit, j,
                 inv, sel, sumSel, selectedHash, ok, witStatus, scriptExit, publicJson,
                 proofJson, ran>>

\* selectedHash[i+1] === selectedHash[i] + sel[i]*hashes[i]; hr === selectedHash[n]
ProverSelect ==
  /\ pc = "p_select"
  /\ selectedHash' = [i \in 0 .. N |-> SelectedHashAt(sel, hashes, i)]
  /\ IF HashConstraint(hr, selectedHash')
       THEN pc' = "accepted" /\ ok' = OkValue /\ witStatus' = "ok"
       ELSE Rejected("rejected_hash") /\ UNCHANGED ok
  /\ UNCHANGED <<hfun, mode, argv, othersFile, inputJson, genExit, r, j, hashes,
                 hr, inv, sel, sumSel, scriptExit, publicJson,
                 proofJson, ran>>

NextProver ==
  \/ ProverAssignEq
  \/ ProverSum
  \/ ProverChooseInputs
  \/ ProverSelect

SpecProver == InitProver /\ [][NextProver]_vars

\* ================================================================= claims
\* The input signals have been set from input.json.
Loaded == r # Unset

\* The index is one of the positions 0..n-1.
InRange == j \in 0 .. (N - 1)

IsSet(a) == DOMAIN a # {}

Failures == {"InputError", "ShapeMismatch", "UnsatisfiableWitness"}

\* C1 (completeness): when the list has n entries, the index j is one of
\* 0..n-1 and Poseidon(r) = hashes[j], witness generation never fails, both
\* hard constraints sumSel[n] = 1 and hr = selectedHash[n] hold, and the
\* finished witness has ok = 1.
C1_Completeness ==
  (Loaded /\ InRange /\ Poseidon(r) = hashes[j]) =>
    /\ witStatus \notin Failures
    /\ pc # "aborted"
    /\ (IsSet(sumSel) => sumSel[N] = 1)
    /\ (IsSet(selectedHash) => hr = selectedHash[N])
    /\ (pc \in {"prove", "done"} => witStatus = "ok" /\ ok = 1)

C1_Witness ==
  /\ mode = "manual" /\ pc = "done" /\ witStatus = "ok" /\ ok = 1
  /\ j > 0 /\ hashes[j] = hr /\ sumSel[N] = 1 /\ selectedHash[N] = hr

\* C2 (soundness under tampering): when j is one of 0..n-1 and Poseidon(r)
\* differs from hashes[j], no witness is produced, whatever the other
\* entries are: generation stops with UnsatisfiableWitness and ok is never
\* assigned.
C2_Soundness ==
  (Loaded /\ InRange /\ Poseidon(r) # hashes[j]) =>
    /\ witStatus # "ok"
    /\ ok = Unset
    /\ pc \notin {"w_ok", "prove", "done"}
    /\ (pc = "aborted" => witStatus = "UnsatisfiableWitness")

C2_Witness ==
  /\ Loaded /\ InRange /\ pc = "aborted" /\ witStatus = "UnsatisfiableWitness"
  /\ hr # hashes[j]
  /\ \E i \in 0 .. (N - 1) : i # j /\ hashes[i] = hr

\* C3 (out-of-range rejection): when the index, as a field element, is none
\* of the positions 0..n-1, the selector sum sumSel[n] is 0 and generation
\* stops with UnsatisfiableWitness, whatever the secret and the list are.
C3_OutOfRangeRejected ==
  (Loaded /\ ~InRange) =>
    /\ (IsSet(sumSel) => sumSel[N] = 0)
    /\ witStatus # "ok"
    /\ ok = Unset
    /\ pc \notin {"w_select", "w_ok", "prove", "done"}
    /\ (pc = "aborted" => witStatus = "UnsatisfiableWitness")

C3_Witness ==
  /\ Loaded /\ ~InRange /\ pc = "aborted" /\ witStatus = "UnsatisfiableWitness"
  /\ sumSel[N] = 0
  /\ hr = 0

\* C4 (one-hot invariant): in every witness that was produced, every
\* selector is 0 or 1, exactly one selector is 1, and it is the one at the
\* claimed index j.
C4_OneHot ==
  witStatus = "ok" =>
    /\ \A i \in 0 .. (N - 1) : sel[i] \in {0, 1}
    /\ Cardinality({i \in 0 .. (N - 1) : sel[i] = 1}) = 1
    /\ InRange
    /\ sel[j] = 1

C4_Witness ==
  /\ witStatus = "ok" /\ j = N - 1 /\ sel[N - 1] = 1
  /\ \A i \in 0 .. (N - 2) : sel[i] = 0

\* C5 (shape enforcement): an input.json whose list has not exactly n
\* entries makes witness generation stop with ShapeMismatch before any
\* signal is set; an others file that is an array of other than n-1 hashes
\* makes get_input_with_others.js fail without printing an input.
C5_ShapeEnforced ==
  /\ (inputJson.kind = "obj" /\ Len(inputJson.hashes) # N /\ pc # "w_load") =>
       /\ witStatus = "ShapeMismatch" /\ pc = "aborted"
       /\ ~Loaded /\ ~IsSet(hashes) /\ hr = Unset /\ ~IsSet(sel)
       /\ ~IsSet(sumSel) /\ ~IsSet(selectedHash) /\ ok = Unset
  /\ (mode = "prove_with_list" /\ othersFile.kind = "array"
        /\ Len(othersFile.items) # N - 1 /\ genExit # Unset) =>
       /\ genExit # 0 /\ inputJson = EmptyJson
       /\ pc = "aborted" /\ witStatus = "none" /\ ~Loaded

C5_Witness ==
  /\ mode = "prove_with_list" /\ othersFile.kind = "array"
  /\ Len(othersFile.items) = N /\ genExit = 1 /\ pc = "aborted"
  /\ inputJson = EmptyJson

C5_WitnessGadget ==
  /\ mode = "manual" /\ Len(inputJson.hashes) = N + 1
  /\ witStatus = "ShapeMismatch" /\ pc = "aborted"

\* C6 (README): once the run has ended, the output ok is 1 if Poseidon(r)
\* equals hashes[j] and 0 otherwise.
C6_OkTellsEquality ==
  (Loaded /\ InRange /\ pc \in {"done", "aborted"}) =>
    ok = (IF Poseidon(r) = hashes[j] THEN 1 ELSE 0)

\* The integer a JSON entry of the others file denotes.
EntryValue(h) == IF h.t = "str" THEN BigIntOf(h.v) ELSE h.v[1]

\* C7 (input built from other hashes): for a given secret and an others
\* file of exactly n-1 hashes, get_input_with_others.js prints an input of
\* n hashes whose first n-1 entries are the given hashes in order and whose
\* last entry is Poseidon(secret), with r the secret and j = n-1; witness
\* generation on it succeeds with ok = 1.
C7_BuiltInputProves ==
  (mode = "prove_with_list" /\ argv.a1 # NoArg /\ othersFile.kind = "array"
     /\ Len(othersFile.items) = N - 1 /\ pc \notin {"args", "gen"}) =>
    /\ genExit = 0
    /\ inputJson.kind = "obj"
    /\ Len(inputJson.hashes) = N
    /\ \A i \in 1 .. (N - 1) :
         BigIntOf(inputJson.hashes[i]) = EntryValue(othersFile.items[i])
    /\ BigIntOf(inputJson.hashes[N]) = hfun[BigIntOf(argv.a1) % P]
    /\ inputJson.r = argv.a1
    /\ BigIntOf(inputJson.j) = N - 1
    /\ pc # "aborted"
    /\ witStatus \notin Failures
    /\ (pc \in {"prove", "done"} => witStatus = "ok" /\ ok = 1)

C7_Witness ==
  /\ mode = "prove_with_list" /\ pc = "done" /\ witStatus = "ok"
  /\ publicJson = <<1>>
  /\ BigIntOf(argv.a1) >= P
  /\ \E i \in 1 .. (N - 1) : othersFile.items[i].t = "num"
  /\ \E i \in 0 .. (N - 2) : hashes[i] # hr

\* C8 (failures are reported): an input builder that printed no input
\* ended with a non-zero exit status, a failed witness generation stops the
\* run with a non-zero exit status, and a run that completes has a witness.
C8_FailuresReported ==
  /\ (genExit # Unset /\ inputJson.kind = "empty") => genExit # 0
  /\ (witStatus \in Failures) => (pc = "aborted" /\ scriptExit \notin {Unset, 0})
  /\ (pc = "done") => witStatus = "ok"

\* C9 (selector soundness at the level of constraints): for every field
\* value of j and every inverse hint, a position whose IsEqual constraints
\* are satisfied has sel[i] = 1 if j = i and 0 otherwise; so the constraint
\* sumSel[n] = 1 is satisfied for no j outside 0..n-1.
C9_SelectorSound ==
  /\ \A i \in DOMAIN sel :
       (pc # "rejected_eq" \/ i < Assigned(sel) - 1) =>
         sel[i] = (IF j = i THEN 1 ELSE 0)
  /\ (pc \in {"p_inputs", "p_select", "accepted", "rejected_hash"}) => InRange
  /\ (~InRange /\ IsSet(sumSel)) => sumSel[N] # 1

C9_Witness ==
  /\ pc = "p_inputs"
  /\ \E i \in 0 .. (N - 1) : inv[i] # IsZeroInv(IsEqualIn(j, i))

\* C10 (selection accumulator): selectedHash[0] = 0 and selectedHash[i+1] =
\* selectedHash[i] + sel[i]*hashes[i] mod p for i in 0..n-1; when the
\* selectors are one-hot at j, selectedHash[n] = hashes[j].
C10_Accumulator ==
  IsSet(selectedHash) =>
    /\ selectedHash[0] = 0
    /\ \A i \in 0 .. (N - 1) :
         selectedHash[i + 1] = (selectedHash[i] + sel[i] * hashes[i]) % P
    /\ (InRange /\ \A i \in 0 .. (N - 1) : sel[i] = (IF i = j THEN 1 ELSE 0)) =>
         selectedHash[N] = hashes[j]

C10_Witness ==
  /\ IsSet(selectedHash) /\ j = 1
  /\ hashes[0] # 0 /\ hashes[1] # 0
  /\ selectedHash[1] = 0
  /\ selectedHash[N] = hashes[1]

\* The steps of prove.sh and prove_with_list.sh, in the order of the scripts.
ScriptSteps == <<"input", "witness", "proof">>

\* A driver script is running (not generate_witness.js alone).
Scripted == mode \in {"prove", "prove_with_list"}

\* Input generation was run and failed: it printed no input.
InputGenFailed == Len(ran) >= 1 /\ inputJson.kind = "empty"

\* The steps run so far are the first steps of the script, in its order.
C11_InOrder == Len(ran) <= 3 /\ ran = SubSeq(ScriptSteps, 1, Len(ran))

\* When input generation or witness generation failed, the proof step has
\* not run and prover/proof.json and prover/public.json are as before.
C11_ProofGuarded ==
  (Scripted /\ (InputGenFailed \/ witStatus \in Failures)) =>
    /\ Len(ran) < 3
    /\ proofJson = <<>>
    /\ publicJson = <<>>

\* C11 (steps in order, each only after the earlier ones succeeded): in
\* prove.sh and prove_with_list.sh the steps run in the order input
\* generation, witness generation, proof creation; witness generation has
\* run only if input generation succeeded, proof creation only if witness
\* generation succeeded too; after a failed input or witness generation the
\* proof step has not run and proof.json and public.json are unchanged.
C11_StepsGuarded ==
  Scripted =>
    /\ C11_InOrder
    /\ (Len(ran) >= 2 => ~InputGenFailed)
    /\ (Len(ran) >= 3 => witStatus = "ok")
    /\ C11_ProofGuarded

====
